---- MODULE Spec2Model ----
(***************************************************************************)
(* Image processor: the Upload Widget (React component App) and the Relay  *)
(* Handler (serverless function api/process).                              *)
(*                                                                         *)
(* Text (content types, model replies, markup) is a sequence of one-       *)
(* character strings, so that startsWith, slice, trim and the two regular  *)
(* expressions of stripFences are computed character by character.         *)
(* A nullable value is None or Some(v).                                    *)
(***************************************************************************)
EXTENDS Integers, Sequences, FiniteSets, TLC

\* ------------------------------------------------------------------ bounds

\* Calls of URL.createObjectURL the model follows.
MaxUrls == 2

\* Invocations of handleProcess the model follows.
MaxRequests == 2

\* ------------------------------------------------------------- nullable

None == [none |-> TRUE]

Some(v) == [val |-> v]

\* JavaScript truthiness of a nullable text: null, undefined and '' are falsy.
Truthy(x) == x # None /\ x.val # <<>>

\* ------------------------------------------------------------------ text

\* String.prototype.startsWith
StartsWith(s, p) == Len(s) >= Len(p) /\ SubSeq(s, 1, Len(p)) = p

\* String.prototype.includes
Includes(s, p) == \E i \in 0..(Len(s) - Len(p)) : SubSeq(s, i + 1, i + Len(p)) = p

\* String.prototype.slice(0, n)
SliceTo(s, n) == SubSeq(s, 1, IF Len(s) < n THEN Len(s) ELSE n)

\* The characters \s matches and trim() removes (those the model's texts use).
WS == {" ", "\n", "\t", "\r"}

\* Number of leading whitespace characters of s.
LeadWs(s) ==
    CHOOSE n \in 0..Len(s) :
        /\ \A i \in 1..n : s[i] \in WS
        /\ (n = Len(s) \/ s[n + 1] \notin WS)

\* Number of trailing whitespace characters of s.
TrailWs(s) ==
    CHOOSE n \in 0..Len(s) :
        /\ \A i \in (Len(s) - n + 1)..Len(s) : s[i] \in WS
        /\ (n = Len(s) \/ s[Len(s) - n] \notin WS)

DropLeadWs(s) == SubSeq(s, LeadWs(s) + 1, Len(s))

DropTrailWs(s) == SubSeq(s, 1, Len(s) - TrailWs(s))

\* String.prototype.trim
Trim(s) == DropTrailWs(DropLeadWs(s))

\* Case folding of the /i flag, on the letters of the fence tags.
Lower(c) ==
    CASE c = "S" -> "s" [] c = "V" -> "v" [] c = "G" -> "g"
      [] c = "X" -> "x" [] c = "M" -> "m" [] c = "L" -> "l"
      [] c = "H" -> "h" [] c = "T" -> "t"
      [] OTHER -> c

LowerSeq(s) == [i \in 1..Len(s) |-> Lower(s[i])]

\* The grave accent (U+0060): the lexer of TLA+ takes none inside a string, so
\* the character is written by name.
BQ == "BACKTICK"

\* The fence marker: three grave accents.
Fence == <<BQ, BQ, BQ>>

\* The alternatives of (?:svg|xml|html), in the order the regex tries them.
FenceTags == << <<"s", "v", "g">>, <<"x", "m", "l">>, <<"h", "t", "m", "l">> >>

\* ------------------------------------------------------------ stripFences

\* Length of the (?:svg|xml|html)? group at the start of s: the first
\* alternative that matches, case folded, or nothing.
TagLen(s) ==
    IF \E k \in 1..Len(FenceTags) : StartsWith(LowerSeq(s), FenceTags[k])
    THEN Len(FenceTags[CHOOSE k \in 1..Len(FenceTags) :
                 /\ StartsWith(LowerSeq(s), FenceTags[k])
                 /\ \A j \in 1..(k - 1) : ~StartsWith(LowerSeq(s), FenceTags[j])])
    ELSE 0

\* text.replace(/^```(?:svg|xml|html)?\s*/i, ''): a fence at the very start of
\* the text, its optional tag and the whitespace after it are removed.
StripOpenFence(text) ==
    IF ~StartsWith(text, Fence) THEN text
    ELSE LET afterFence == SubSeq(text, Len(Fence) + 1, Len(text))
             afterTag == SubSeq(afterFence, TagLen(afterFence) + 1, Len(afterFence))
         IN  DropLeadWs(afterTag)

\* text.replace(/\s*```$/, ''): a fence at the very end of the text and the
\* whitespace before it are removed ($ without the m flag is the end of input).
StripCloseFence(text) ==
    IF Len(text) >= Len(Fence) /\ SubSeq(text, Len(text) - Len(Fence) + 1, Len(text)) = Fence
    THEN DropTrailWs(SubSeq(text, 1, Len(text) - Len(Fence)))
    ELSE text

\* stripFences without the removal of the closing fence.
stripFencesOpenOnly(text) == Trim(StripOpenFence(text))

stripFences(text) == Trim(StripCloseFence(StripOpenFence(text)))

\* ---------------------------------------------------- Relay Handler: data

\* Length of the raw echo: svg.slice(0, 300).
RawPrefixLen == 300

SvgTag == <<"<", "s", "v", "g">>

KeyframesMarker == <<"@", "k", "e", "y", "f", "r", "a", "m", "e", "s">>

AnimationMarker == <<"a", "n", "i", "m", "a", "t", "i", "o", "n">>

\* A JSON response of the handler: res.status(s).json({...}); a field the
\* object literal does not have is None.
Response(status, err, raw, svg, animated) ==
    [status |-> status, error |-> err, raw |-> raw, svg |-> svg, animated |-> animated]

MethodNotAllowed == Response(405, Some("Method not allowed"), None, None, None)

BadRequest == Response(400, Some("Missing imageData or mimeType"), None, None, None)

ServerMisconfigured ==
    Response(500, Some("GROQ_API_KEY is not configured on the server"), None, None, None)

\* A catch block that answers with a fixed text instead of the message.
UpstreamFailureGeneric(message) ==
    Response(500, Some("Internal server error"), None, None, None)

\* The catch block: res.status(500).json({ error: message }).
UpstreamFailure(message) == Response(500, Some(message), None, None, None)

\* Validation passed: the handler goes on to the external call.
Pass == [pass |-> TRUE]

\* req.body ?? {} and its destructuring: a missing body has neither field.
BodyField(body, f) == IF body = None THEN None ELSE body.val[f]

\* The handler without its credential check.
ValidateNoKeyCheck(method, body, apiKey) ==
    IF method # "POST" THEN MethodNotAllowed
    ELSE IF ~Truthy(BodyField(body, "imageData")) \/ ~Truthy(BodyField(body, "mimeType"))
         THEN BadRequest
    ELSE Pass

\* The handler with the credential check before the field check.
ValidateKeyFirst(method, body, apiKey) ==
    IF method # "POST" THEN MethodNotAllowed
    ELSE IF ~Truthy(apiKey) THEN ServerMisconfigured
    ELSE IF ~Truthy(BodyField(body, "imageData")) \/ ~Truthy(BodyField(body, "mimeType"))
         THEN BadRequest
    ELSE Pass

\* The handler with the method check after the field check.
ValidateMethodLate(method, body, apiKey) ==
    IF ~Truthy(BodyField(body, "imageData")) \/ ~Truthy(BodyField(body, "mimeType"))
    THEN BadRequest
    ELSE IF method # "POST" THEN MethodNotAllowed
    ELSE IF ~Truthy(apiKey) THEN ServerMisconfigured
    ELSE Pass

\* Lines 146-159: the method check, the field check, the credential check.
Validate(method, body, apiKey) ==
    IF method # "POST" THEN MethodNotAllowed
    ELSE IF ~Truthy(BodyField(body, "imageData")) \/ ~Truthy(BodyField(body, "mimeType"))
         THEN BadRequest
    ELSE IF ~Truthy(apiKey) THEN ServerMisconfigured
    ELSE Pass

\* svg.includes('@keyframes') || svg.includes('animation')
HasAnimation(svg) == Includes(svg, KeyframesMarker) \/ Includes(svg, AnimationMarker)

\* The shaping with the animation markers enforced: markup without them is
\* rejected like text that is no markup.
ShapeReplyEnforced(content) ==
    LET svg == stripFences(content)
    IN  IF ~StartsWith(svg, SvgTag) \/ ~HasAnimation(svg)
        THEN Response(500, Some("Model did not return a valid SVG"),
                      Some(SliceTo(svg, RawPrefixLen)), None, None)
        ELSE Response(200, None, None, Some(svg), Some(TRUE))

\* Lines 189-204: the reply text is stripped, validated and answered.
ShapeReply(content) ==
    LET svg == stripFences(content)
    IN  IF ~StartsWith(svg, SvgTag)
        THEN Response(500, Some("Model did not return a valid SVG"),
                      Some(SliceTo(svg, RawPrefixLen)), None, None)
        ELSE Response(200, None, None, Some(svg), Some(HasAnimation(svg)))

\* What the handler answers once the external call has settled as o. A resolved
\* completion with no choice makes response.choices[0].message throw a
\* TypeError, which the catch block answers like a rejection.
\* content ?? '' turns a null content into the empty text.
AfterCall(o) ==
    IF o.kind = "rejected" THEN UpstreamFailure(o.message)
    ELSE IF o.choices = <<>>
         THEN UpstreamFailure("Cannot read properties of undefined (reading 'message')")
    ELSE ShapeReply(IF o.choices[1] = None THEN <<>> ELSE o.choices[1].val)

\* -------------------------------------------------- Relay Handler: inputs

SvgStatic == SvgTag \o <<">", "<", "g", "/", ">", "<", "/", "s", "v", "g", ">">>

SvgKeyframes == SvgTag \o <<">">> \o KeyframesMarker \o <<"<", "/", "s", "v", "g", ">">>

SvgAnimation == SvgTag \o <<">">> \o AnimationMarker \o <<"<", "/", "s", "v", "g", ">">>

\* A payload with whitespace inside it.
SvgSpaced == SvgTag \o <<" ", ">", "\n", "<", "/", "s", "v", "g", ">">>

NotSvg == <<"S", "o", "r", "r", "y">>

\* A reply that begins with the letters of a fence tag.
TagLikeText == <<"s", "v", "g", " ", "o", "k">>

\* A reply longer than the raw echo.
LongText == [i \in 1..(RawPrefixLen + 5) |-> IF i % 7 = 0 THEN " " ELSE "x"]

\* The well-formed payloads: markup from <svg to </svg>.
SvgPayloads == {SvgStatic, SvgKeyframes, SvgAnimation, SvgSpaced}

Payloads == SvgPayloads \cup {NotSvg, TagLikeText, LongText, <<>>}

\* Opening fence markers: the fence with no tag, or with a tag in any case.
OpenFences ==
    {Fence, Fence \o <<"s", "v", "g">>, Fence \o <<"X", "M", "L">>,
     Fence \o <<"h", "t", "m", "l">>, Fence \o <<"S", "v", "g">>}

\* Whitespace between a fence marker and the payload.
InnerWs == {<<>>, <<"\n">>, <<" ", "\n">>, <<"\r", "\n", "\t">>}

\* Whitespace before the opening or after the closing marker.
OuterWs == {<<>>, <<"\n">>}

\* payload wrapped in an opening and a closing fence marker.
Fenced(open, ws1, payload, ws2) == open \o ws1 \o payload \o ws2 \o Fence

\* The reply texts of the external model: a payload, bare or with either or
\* both fence markers, with whitespace around the parts.
ReplyTexts ==
    {lead \o open \o ws1 \o payload \o ws2 \o close \o trail :
        lead \in OuterWs, open \in OpenFences \cup {<<>>}, ws1 \in InnerWs,
        payload \in Payloads, ws2 \in InnerWs, close \in {<<>>, Fence},
        trail \in OuterWs}

Resolved(choices) == [kind |-> "resolved", choices |-> choices]

Rejected(message) == [kind |-> "rejected", message |-> message]

\* How groq.chat.completions.create settles: a completion with a text, with a
\* null content or with no choice; or an error (network, provider, credential).
Outcomes ==
    {Resolved(<<Some(t)>>) : t \in ReplyTexts}
        \cup {Resolved(<<None>>), Resolved(<<>>)}
        \cup {Rejected(m) : m \in {"Connection error.", "401 Invalid API Key",
                                   "413 Request Entity Too Large"}}

Methods == {"POST", "GET", "PUT", "OPTIONS"}

ImageDataText == <<"Q", "Q", "=", "=">>

PngType == <<"i", "m", "a", "g", "e", "/", "p", "n", "g">>

\* req.body: missing, or an object with each field absent, empty or given.
Bodies ==
    {None} \cup
    {Some([imageData |-> d, mimeType |-> m]) :
        d \in {None, Some(<<>>), Some(ImageDataText)},
        m \in {None, Some(<<>>), Some(PngType)}}

\* process.env.GROQ_API_KEY: unset, set to the empty string, or set.
ApiKeys == {None, Some(<<>>), Some(<<"g", "s", "k">>)}

\* --------------------------------------------------------------- state

VARIABLES
    \* Relay Handler, one invocation at a time
    hpc,          \* "idle" | "awaiting" (the external call) | "responded"
    req,          \* the request being handled: method, body, apiKey
    outcome,      \* how the external call settled, None before
    responses,    \* the responses sent for this request, in order
    modelCalls    \* calls to the external model made for this request

relayVars == <<hpc, req, outcome, responses, modelCalls>>

NoRequest == [method |-> "", body |-> None, apiKey |-> None]

RelayInit ==
    /\ hpc = "idle"
    /\ req = NoRequest
    /\ outcome = None
    /\ responses = <<>>
    /\ modelCalls = 0

\* handler, up to its await: lines 145-164.
HandlerEntry ==
    /\ hpc = "idle"
    /\ \E method \in Methods, body \in Bodies, apiKey \in ApiKeys :
        /\ req' = [method |-> method, body |-> body, apiKey |-> apiKey]
        /\ LET v == Validate(method, body, apiKey)
           IN  IF v = Pass
               THEN /\ hpc' = "awaiting"
                    /\ modelCalls' = modelCalls + 1
                    /\ responses' = responses
               ELSE /\ hpc' = "responded"
                    /\ modelCalls' = modelCalls
                    /\ responses' = Append(responses, v)
    /\ outcome' = outcome

\* A handler that calls the model once more when the call rejects.
RetriesOnRejection(o) == IF o.kind = "rejected" THEN 1 ELSE 0

\* Further calls to the external model once the call has settled as o: the
\* catch block, lines 205-209, answers and does not call again.
Retries(o) == 0

\* handler, from its await to its return: lines 164-209.
HandlerResume ==
    /\ hpc = "awaiting"
    /\ \E o \in Outcomes :
        /\ outcome' = Some(o)
        /\ responses' = Append(responses, AfterCall(o))
        /\ modelCalls' = modelCalls + Retries(o)
    /\ hpc' = "responded"
    /\ req' = req

\* The handler is stateless: the next request starts from nothing.
NextRequest ==
    /\ hpc = "responded"
    /\ hpc' = "idle"
    /\ req' = NoRequest
    /\ outcome' = None
    /\ responses' = <<>>
    /\ modelCalls' = 0

\* --------------------------------------------------- Upload Widget: data

\* The files a drop or the file picker can offer: File.type and the file's
\* bytes in base64 (empty for an empty file).
PngFile == [name |-> "photo.png", type |-> PngType, data |-> ImageDataText]

GifFile ==
    [name |-> "empty.gif", type |-> <<"i", "m", "a", "g", "e", "/", "g", "i", "f">>,
     data |-> <<>>]

TextFile ==
    [name |-> "notes.txt",
     type |-> <<"t", "e", "x", "t", "/", "p", "l", "a", "i", "n">>,
     data |-> ImageDataText]

\* A file of unknown type: File.type is ''.
UntypedFile == [name |-> "blob", type |-> <<>>, data |-> ImageDataText]

\* A type that begins with the word image but not with image/.
ImagesFile ==
    [name |-> "album", type |-> <<"i", "m", "a", "g", "e", "s", "/", "x">>,
     data |-> ImageDataText]

Files == {PngFile, GifFile, TextFile, UntypedFile, ImagesFile}

\* files[0] of an event that carries no file.
NoFile == None

ImageSlash == <<"i", "m", "a", "g", "e", "/">>

\* The type test without the slash: startsWith('image').
IsImageNoSlash(file) == StartsWith(file.type, <<"i", "m", "a", "g", "e">>)

\* file.type.startsWith('image/')
IsImage(file) == StartsWith(file.type, ImageSlash)

\* reader.readAsDataURL(file): data:<type>;base64,<bytes in base64>
DataUrl(file) ==
    <<"d", "a", "t", "a", ":">> \o file.type
        \o <<";", "b", "a", "s", "e", "6", "4", ",">> \o file.data

\* Index of the first comma of s at or after position from, Len(s) + 1 if none.
CommaFrom(s, from) ==
    IF \E i \in from..Len(s) : s[i] = ","
    THEN CHOOSE i \in from..Len(s) : s[i] = "," /\ \A j \in from..(i - 1) : s[j] # ","
    ELSE Len(s) + 1

\* dataUrl.split(',')[1]: the text between the first comma and the second
\* (or the end); undefined when there is no comma.
fileToBase64(file) ==
    LET dataUrl == DataUrl(file)
        c1 == CommaFrom(dataUrl, 1)
    IN  IF c1 > Len(dataUrl) THEN None
        ELSE Some(SubSeq(dataUrl, c1 + 1, CommaFrom(dataUrl, c1 + 1) - 1))

\* What the widget's fetch of /api/process can meet: the network fails; the
\* body is not JSON (a page of the hosting layer); the hosting layer answers
\* a non-2xx JSON object with no error field; or the Relay Handler answers.
HostingError == Response(413, None, None, None, None)

\* The settled external calls the widget's requests are followed with.
WidgetOutcomes ==
    {Resolved(<<Some(Fenced(Fence \o <<"s", "v", "g">>, <<"\n">>, SvgKeyframes, <<"\n">>))>>),
     Resolved(<<Some(NotSvg)>>),
     Rejected("Connection error.")}

\* What the handler answers to those calls once they have settled.
WidgetAnswers == {AfterCall(o) : o \in WidgetOutcomes}

\* The handler's answer to the widget's POST { imageData, mimeType }, where
\* answer is what it answers after the external call.
RelayAnswer(imageData, mimeType, apiKey, answer) ==
    LET v == Validate("POST", Some([imageData |-> imageData, mimeType |-> mimeType]), apiKey)
    IN  IF v = Pass THEN answer ELSE v

FetchResults(imageData, mimeType) ==
    {[kind |-> "network"], [kind |-> "unparsable"], [kind |-> "json", data |-> HostingError]}
        \cup {[kind |-> "json", data |-> RelayAnswer(imageData, mimeType, k, a)] :
                k \in {None, Some(<<"g", "s", "k">>)}, a \in WidgetAnswers}

\* fileToBase64 of each file.
EncodedFiles == [f \in Files |-> fileToBase64(f)]

\* response.ok
Ok(data) == data.status >= 200 /\ data.status <= 299

\* The message the catch block stores for a settled fetch, None on success:
\* fetch rejects with a TypeError, response.json() with a SyntaxError, and a
\* non-2xx reply throws Error(data.error || 'Processing failed').
FailureMessage(result) ==
    IF result.kind = "network" THEN Some("Failed to fetch")
    ELSE IF result.kind = "unparsable" THEN Some("Unexpected token '<'")
    ELSE IF ~Ok(result.data)
         THEN IF result.data.error # None /\ result.data.error.val # ""
              THEN result.data.error
              ELSE Some("Processing failed")
    ELSE None

\* --------------------------------------------------- Upload Widget: state

VARIABLES
    uploadState,  \* 'idle' | 'dragging' | 'ready' | 'processing'
    image,        \* None or [file, url]
    svgOutput,    \* None or the stored markup
    error,        \* None or the stored message
    requests,     \* the invocations of handleProcess that have not returned:
                  \* [id, image (the closure's), phase "encoding" | "fetching"]
    nextReq,      \* invocations of handleProcess so far, plus one
    nextUrl,      \* calls of URL.createObjectURL so far, plus one
    live,         \* object URLs created and not revoked
    revokes,      \* per object URL, the calls of URL.revokeObjectURL on it
    lastOp,       \* the handler that ran last and the file it was given
    mounted,      \* the component is mounted
    resultOf      \* the image (the closure's) of the invocation of handleProcess
                  \* whose reply svgOutput holds, None when there is none

widgetVars ==
    <<uploadState, image, svgOutput, error, requests, nextReq, nextUrl, live, revokes,
      lastOp, mounted, resultOf>>

vars == <<relayVars, widgetVars>>

Op(name, file) == [op |-> name, file |-> file]

WidgetInit ==
    /\ uploadState = "idle"
    /\ image = None
    /\ svgOutput = None
    /\ error = None
    /\ requests = {}
    /\ nextReq = 1
    /\ nextUrl = 1
    /\ live = {}
    /\ revokes = [u \in {} |-> 0]
    /\ lastOp = Op("mount", NoFile)
    /\ mounted = TRUE
    /\ resultOf = None

\* setImage without the release of the previous URL.
RevokedByNothing(prev) == {}

\* The object URLs the updater of setImage revokes, line 29: that of the
\* image held before, if any. (The updater runs once for each update; a
\* development build under StrictMode, which would run it twice, is not
\* modelled.)
RevokedBy(prev) == IF prev # None THEN {prev.url} ELSE {}

\* acceptFile without the clearing of the result and the error.
KeptOnAccept(current) == current

\* What setSvgOutput(null) and setError(null), lines 31-32, leave stored.
ClearedOnAccept(current) == None

\* acceptFile, lines 25-35.
acceptFile(file) ==
    IF ~IsImage(file)
    THEN UNCHANGED <<uploadState, image, svgOutput, resultOf, error, nextUrl, live, revokes>>
    ELSE /\ nextUrl <= MaxUrls
         /\ LET url == nextUrl
            IN  /\ nextUrl' = nextUrl + 1
                /\ image' = [file |-> file, url |-> url]
                /\ live' = (live \ RevokedBy(image)) \cup {url}
                /\ revokes' = [u \in DOMAIN revokes \cup {url} |->
                                  IF u = url THEN 0
                                  ELSE IF u \in RevokedBy(image) THEN revokes[u] + 1
                                  ELSE revokes[u]]
         /\ svgOutput' = ClearedOnAccept(svgOutput)
         /\ resultOf' = (IF svgOutput' = None THEN None ELSE resultOf)
         /\ error' = ClearedOnAccept(error)
         /\ uploadState' = "ready"

\* onDragOver, lines 37-40.
onDragOver ==
    /\ uploadState' = "dragging"
    /\ lastOp' = Op("onDragOver", NoFile)
    /\ UNCHANGED <<image, svgOutput, resultOf, error, requests, nextReq, nextUrl, live, revokes>>

\* onDragLeave that forgets the held image.
LeaveStateIdle(img) == "idle"

\* onDragLeave that takes an image for held.
LeaveStateReady(img) == "ready"

\* The state onDragLeave sets.
LeaveState(img) == IF img # None THEN "ready" ELSE "idle"

\* onDragLeave, lines 42-45.
onDragLeave ==
    /\ uploadState' = LeaveState(image)
    /\ lastOp' = Op("onDragLeave", NoFile)
    /\ UNCHANGED <<image, svgOutput, resultOf, error, requests, nextReq, nextUrl, live, revokes>>

\* onDrop, lines 47-51: files[0] of the drop, if any, goes to acceptFile.
onDrop ==
    \E f \in {Some(x) : x \in Files} \cup {NoFile} :
        /\ IF f # NoFile
           THEN acceptFile(f.val)
           ELSE UNCHANGED <<uploadState, image, svgOutput, resultOf, error, nextUrl, live, revokes>>
        /\ lastOp' = Op("onDrop", f)
        /\ UNCHANGED <<requests, nextReq>>

\* onFileChange, lines 53-57: as onDrop; the reset of the input element's
\* value is no state of the component.
onFileChange ==
    \E f \in {Some(x) : x \in Files} \cup {NoFile} :
        /\ IF f # NoFile
           THEN acceptFile(f.val)
           ELSE UNCHANGED <<uploadState, image, svgOutput, resultOf, error, nextUrl, live, revokes>>
        /\ lastOp' = Op("onFileChange", f)
        /\ UNCHANGED <<requests, nextReq>>

\* The button's disabled attribute, line 141.
ButtonDisabled == image = None \/ uploadState = "processing"

\* handleProcess without its guard.
NoImageNever(img) == FALSE

\* The guard of handleProcess, line 60: if (!image) return.
NoImage(img) == img = None

\* handleProcess up to its first await, lines 59-66.
handleProcess ==
    /\ IF NoImage(image)
       THEN UNCHANGED <<uploadState, error, svgOutput, resultOf, requests, nextReq>>
       ELSE /\ nextReq <= MaxRequests
            /\ uploadState' = "processing"
            /\ error' = None
            /\ svgOutput' = None
            /\ resultOf' = None
            /\ requests' = requests \cup
                    {[id |-> nextReq, image |-> image, phase |-> "encoding"]}
            /\ nextReq' = nextReq + 1
    /\ lastOp' = Op("handleProcess", NoFile)
    /\ UNCHANGED <<image, nextUrl, live, revokes>>

\* A click on the process button, lines 138-142: it runs handleProcess
\* unless the button is disabled.
ClickProcess == ~ButtonDisabled /\ handleProcess

\* handleProcess with the reset at the end of the try block instead of in a
\* finally block: a failure leaves the state as it was.
SettledStateNoFinally(current, failed) == IF failed THEN current ELSE "ready"

\* handleProcess that never resets the state.
SettledStateKept(current, failed) == current

\* The state handleProcess leaves, from the state it finds, when it returns
\* through the catch block or not: the finally block, line 83, sets 'ready'
\* on both paths.
SettledState(current, failed) == "ready"

\* fileToBase64 resolves and fetch is called, lines 66-71.
EncodeDone ==
    \E r \in requests :
        /\ r.phase = "encoding"
        /\ requests' = (requests \ {r}) \cup {[r EXCEPT !.phase = "fetching"]}
        /\ lastOp' = Op("fetch", NoFile)
        /\ UNCHANGED <<uploadState, image, svgOutput, resultOf, error, nextReq, nextUrl, live, revokes>>

\* fileToBase64 rejects with the reader's error event, which is no Error:
\* catch and finally, lines 80-84.
EncodeFails ==
    \E r \in requests :
        /\ r.phase = "encoding"
        /\ requests' = requests \ {r}
        /\ error' = Some("Something went wrong")
        /\ uploadState' = SettledState(uploadState, TRUE)
        /\ lastOp' = Op("encodeFailed", NoFile)
        /\ UNCHANGED <<image, svgOutput, resultOf, nextReq, nextUrl, live, revokes>>

\* fetch settles and the reply is read, lines 67-84. The await of
\* response.json() is folded into this step: between the two awaits the
\* function touches no state of the component.
FetchSettles ==
    \E r \in requests :
        /\ r.phase = "fetching"
        /\ \E result \in FetchResults(EncodedFiles[r.image.file], Some(r.image.file.type)) :
            LET msg == FailureMessage(result)
            IN  /\ IF msg = None
                   THEN /\ svgOutput' = result.data.svg
                        /\ resultOf' = r.image
                        /\ error' = error
                   ELSE /\ error' = msg
                        /\ svgOutput' = svgOutput
                        /\ resultOf' = resultOf
                /\ lastOp' = Op(IF msg = None THEN "stored" ELSE "failed", NoFile)
                /\ uploadState' = SettledState(uploadState, msg # None)
        /\ requests' = requests \ {r}
        /\ UNCHANGED <<image, nextReq, nextUrl, live, revokes>>

\* ------------------------------------------------------- specifications

Init == WidgetInit /\ RelayInit

\* What a handler of the mounted component leaves alone.
frame == <<relayVars, mounted>>

\* The Upload Widget.
Next ==
    \/ onDragOver /\ UNCHANGED frame
    \/ onDragLeave /\ UNCHANGED frame
    \/ onDrop /\ UNCHANGED frame
    \/ onFileChange /\ UNCHANGED frame
    \/ ClickProcess /\ UNCHANGED frame
    \/ EncodeDone /\ UNCHANGED frame
    \/ EncodeFails /\ UNCHANGED frame
    \/ FetchSettles /\ UNCHANGED frame

Spec == Init /\ [][Next]_vars

\* The Upload Widget when every outbound request eventually resolves or
\* rejects: the encoding of the file settles, and so does the fetch.
SpecLive ==
    /\ Init
    /\ [][Next]_vars
    /\ WF_vars((EncodeDone \/ EncodeFails) /\ UNCHANGED frame)
    /\ WF_vars(FetchSettles /\ UNCHANGED frame)

\* The Upload Widget with handleProcess invoked directly, in any state, as a
\* caller of the callback other than the button can.
NextInvoke ==
    \/ onDragOver /\ UNCHANGED frame
    \/ onDragLeave /\ UNCHANGED frame
    \/ onDrop /\ UNCHANGED frame
    \/ onFileChange /\ UNCHANGED frame
    \/ handleProcess /\ UNCHANGED frame
    \/ EncodeDone /\ UNCHANGED frame
    \/ EncodeFails /\ UNCHANGED frame
    \/ FetchSettles /\ UNCHANGED frame

SpecInvoke == Init /\ [][NextInvoke]_vars

\* The component is torn down. App registers no cleanup (it has no effect
\* hook), so nothing is revoked; the invocations of handleProcess that have
\* not returned go on.
Unmount ==
    /\ mounted
    /\ mounted' = FALSE
    /\ lastOp' = Op("unmount", NoFile)
    /\ UNCHANGED <<uploadState, image, svgOutput, resultOf, error, requests, nextReq, nextUrl,
                   live, revokes>>

\* An invocation of handleProcess goes on after the teardown: the fetch is
\* still sent and settles, and the state setters it calls have no effect on
\* the unmounted component.
ResumeUnmounted ==
    /\ ~mounted
    /\ \E r \in requests :
        \/ /\ r.phase = "encoding"
           /\ requests' = (requests \ {r}) \cup {[r EXCEPT !.phase = "fetching"]}
        \/ requests' = requests \ {r}
    /\ UNCHANGED <<uploadState, image, svgOutput, resultOf, error, nextReq, nextUrl, live, revokes,
                   lastOp, mounted>>

\* The Upload Widget with its teardown.
NextTeardown ==
    \/ mounted /\ onDragOver /\ UNCHANGED frame
    \/ mounted /\ onDragLeave /\ UNCHANGED frame
    \/ mounted /\ onDrop /\ UNCHANGED frame
    \/ mounted /\ onFileChange /\ UNCHANGED frame
    \/ mounted /\ ClickProcess /\ UNCHANGED frame
    \/ mounted /\ EncodeDone /\ UNCHANGED frame
    \/ mounted /\ EncodeFails /\ UNCHANGED frame
    \/ mounted /\ FetchSettles /\ UNCHANGED frame
    \/ Unmount /\ UNCHANGED relayVars
    \/ ResumeUnmounted /\ UNCHANGED relayVars

SpecTeardown == Init /\ [][NextTeardown]_vars

\* The Relay Handler.
NextRelay ==
    \/ HandlerEntry /\ UNCHANGED widgetVars
    \/ HandlerResume /\ UNCHANGED widgetVars
    \/ NextRequest /\ UNCHANGED widgetVars

SpecRelay == Init /\ [][NextRelay]_vars

\* ------------------------------------------------- claims: Upload Widget

\* The requests to /api/process that are out and not answered.
InFlight == {r \in requests : r.phase = "fetching"}

\* C1: at most one outbound /api/process request is in flight at any time.
C1_AtMostOneInFlight == Cardinality(InFlight) <= 1

\* The handler that ran last ended an invocation of handleProcess.
Finished == lastOp.op \in {"stored", "failed", "encodeFailed"}

\* C2: the step that finishes a process request (a 2xx reply, a non-2xx
\* reply, a network error, an unparsable body, a failure to encode the file)
\* leaves uploadState = 'ready'.
C2_FinishLeavesReady == Finished => uploadState = "ready"

\* A request has ended on a non-2xx reply of the handler and the widget is
\* 'ready'.
C2_Witness ==
    /\ lastOp.op = "failed"
    /\ error = Some("Model did not return a valid SVG")
    /\ uploadState = "ready"

\* The widget state acceptFile can write, and the object URLs.
acceptVars == <<uploadState, image, svgOutput, error, nextUrl, live, revokes>>

\* The step is a drop or a pick of a file whose type does not begin with image/.
OfferedNonImage ==
    /\ lastOp'.op \in {"onDrop", "onFileChange"}
    /\ lastOp'.file # NoFile
    /\ ~StartsWith(lastOp'.file.val.type, ImageSlash)

\* C8: a file whose content type does not begin with 'image/', offered by
\* drop or by the picker in any state, changes nothing: uploadState, image,
\* result and error stay, and no display reference is created or released.
C8_NonImageChangesNothing == [][OfferedNonImage => UNCHANGED acceptVars]_vars

\* A file of type images/x has been dropped on a widget that holds an image
\* and shows the drag state.
C8_Witness ==
    /\ lastOp = Op("onDrop", Some(ImagesFile))
    /\ uploadState = "dragging"
    /\ image # None

\* C9: the widget holds at most one image and exactly one live display
\* reference per held image; every reference created and not held has been
\* released exactly once, and none is released twice.
C9_OneLiveReference ==
    /\ live = (IF image = None THEN {} ELSE {image.url})
    /\ DOMAIN revokes = 1..(nextUrl - 1)
    /\ \A u \in DOMAIN revokes : revokes[u] = (IF u \in live THEN 0 ELSE 1)

\* A second image has replaced the first: the first URL is released once.
C9_Witness ==
    /\ image # None
    /\ image.url = 2
    /\ revokes[1] = 1
    /\ live = {2}

\* C10: drag-over sets 'dragging' whether or not an image is held; a
\* drag-leave that follows it sets 'idle' with no image held and 'ready'
\* with an image held.
C10_DragTransitions ==
    [][/\ lastOp'.op = "onDragOver" => uploadState' = "dragging"
       /\ (lastOp.op = "onDragOver" /\ lastOp'.op = "onDragLeave")
            => uploadState' = (IF image' = None THEN "idle" ELSE "ready")]_vars

\* The drag has left a widget that holds an image.
C10_Witness ==
    /\ lastOp.op = "onDragLeave"
    /\ image # None
    /\ uploadState = "ready"

\* ------------------------------------------------- claims: Relay Handler

\* The request carries both fields (each a non-empty value).
CarriesBoth ==
    /\ Truthy(BodyField(req.body, "imageData"))
    /\ Truthy(BodyField(req.body, "mimeType"))

\* C3: a POST carrying both imageData and mimeType, with the credential
\* absent, is answered 500 with the configuration-error message, and the
\* external model is not called.
C3_MissingCredential ==
    (hpc # "idle" /\ req.method = "POST" /\ CarriesBoth /\ ~Truthy(req.apiKey))
        => /\ hpc = "responded"
           /\ Len(responses) = 1
           /\ responses[1].status = 500
           /\ responses[1].error = Some("GROQ_API_KEY is not configured on the server")
           /\ modelCalls = 0

\* A complete POST has been answered while GROQ_API_KEY is unset.
C3_Witness ==
    /\ hpc = "responded"
    /\ req.method = "POST"
    /\ CarriesBoth
    /\ req.apiKey = None

\* C4: a POST whose body lacks imageData or mimeType (or is missing) is
\* answered 400 with an error naming the fields, without a call to the
\* external model, whether or not the credential is configured.
C4_MissingFields ==
    (hpc # "idle" /\ req.method = "POST" /\ ~CarriesBoth)
        => /\ hpc = "responded"
           /\ Len(responses) = 1
           /\ responses[1].status = 400
           /\ responses[1].error = Some("Missing imageData or mimeType")
           /\ modelCalls = 0

\* A POST without mimeType has been answered while the credential is unset.
C4_Witness ==
    /\ hpc = "responded"
    /\ req.method = "POST"
    /\ req.body = Some([imageData |-> Some(ImageDataText), mimeType |-> None])
    /\ req.apiKey = None

\* C5: a request whose method is not POST is answered 405 with an error
\* field, whatever its body and the credential, without a call to the
\* external model.
C5_MethodNotAllowed ==
    (hpc # "idle" /\ req.method # "POST")
        => /\ hpc = "responded"
           /\ Len(responses) = 1
           /\ responses[1].status = 405
           /\ responses[1].error # None
           /\ modelCalls = 0

\* A GET with no body has been answered while the credential is configured.
C5_Witness ==
    /\ hpc = "responded"
    /\ req.method = "GET"
    /\ req.body = None
    /\ Truthy(req.apiKey)

\* The external call resolved with the reply text t.
RepliedText(t) == outcome = Some(Resolved(<<Some(t)>>))

\* C6: when the reply, after fence stripping, does not begin with '<svg',
\* the handler answers 500 with an error field and a raw field that is a
\* prefix, of at most 300 characters, of the model's original reply text.
C6_RawIsPrefixOfReply ==
    \A t \in ReplyTexts :
        (hpc = "responded" /\ RepliedText(t) /\ ~StartsWith(stripFences(t), SvgTag))
            => /\ Len(responses) = 1
               /\ responses[1].status = 500
               /\ responses[1].error # None
               /\ responses[1].raw # None
               /\ Len(responses[1].raw.val) <= RawPrefixLen
               /\ StartsWith(t, responses[1].raw.val)

\* The replies that are a well-formed payload wrapped in an opening and a
\* closing fence marker, with whitespace between markers and payload only.
WellFormedFenced ==
    {[text |-> Fenced(open, ws1, p, ws2), payload |-> p] :
        open \in OpenFences, ws1 \in InnerWs, p \in SvgPayloads, ws2 \in InnerWs}

\* C7: for a well-formed payload wrapped in fence markers, stripFences gives
\* exactly the payload: no fence marker remains and the result has neither
\* leading nor trailing whitespace. (Read off the handler's svg field, which
\* is the value stripFences returned.)
C7_StripFencesRoundTrip ==
    \A w \in WellFormedFenced :
        (hpc = "responded" /\ RepliedText(w.text))
            => /\ Len(responses) = 1
               /\ responses[1].svg = Some(w.payload)
               /\ ~Includes(responses[1].svg.val, Fence)
               /\ Trim(responses[1].svg.val) = responses[1].svg.val

\* The reply was a payload in an XML-tagged fence, with CR LF TAB before the
\* payload and a newline after it.
C7_Witness ==
    /\ hpc = "responded"
    /\ RepliedText(Fenced(Fence \o <<"X", "M", "L">>, <<"\r", "\n", "\t">>, SvgSpaced, <<"\n">>))

\* ---------------------------------------- claims: Upload Widget, continued

\* C11: invoking process while no image is held is a no-op: uploadState,
\* result and error are unchanged and no request is issued.
C11_ProcessWithoutImageNoOp ==
    [][(lastOp'.op = "handleProcess" /\ image = None)
          => UNCHANGED <<uploadState, svgOutput, error, requests, nextReq, image>>]_vars

\* handleProcess has run on a widget that holds no image and shows the drag
\* state.
C11_Witness ==
    /\ lastOp.op = "handleProcess"
    /\ image = None
    /\ uploadState = "dragging"

\* ---------------------------------------- claims: Relay Handler, continued

\* The external call failed, or its reply could not be read (no choice).
FailedCall(o) == IF o.kind = "rejected" THEN TRUE ELSE o.choices = <<>>

\* The message of the error the call or the reading of its reply raised.
UnderlyingMessage(o) ==
    IF o.kind = "rejected" THEN o.message
    ELSE "Cannot read properties of undefined (reading 'message')"

\* C12: once validation has passed, every failure of the external call or of
\* reading its reply is answered 500 with an error field carrying the
\* underlying message, in exactly one response.
C12_FailuresAnswered ==
    (hpc = "responded" /\ outcome # None /\ FailedCall(outcome.val))
        => responses = <<Response(500, Some(UnderlyingMessage(outcome.val)), None, None, None)>>

\* The provider has refused the credential and the handler has answered.
C12_Witness ==
    /\ hpc = "responded"
    /\ outcome = Some(Rejected("401 Invalid API Key"))

\* Method, body fields and credential are all valid.
ValidRequest == req.method = "POST" /\ CarriesBoth /\ Truthy(req.apiKey)

\* C13: a request causes exactly one call to the external model when method,
\* fields and credential are valid and none otherwise, with no retry after a
\* failed call, and gets exactly one response.
C13_OneCallOneResponse ==
    /\ hpc = "awaiting" => (ValidRequest /\ modelCalls = 1 /\ responses = <<>>)
    /\ hpc = "responded"
        => /\ Len(responses) = 1
           /\ modelCalls = (IF ValidRequest THEN 1 ELSE 0)

\* The one call has failed on the network and the handler has answered.
C13_Witness ==
    /\ hpc = "responded"
    /\ outcome = Some(Rejected("Connection error."))
    /\ modelCalls = 1

\* C14: after the widget is torn down no display reference it created
\* remains unreleased.
C14_TeardownReleases == ~mounted => live = {}

\* C15: every time uploadState becomes 'processing' it eventually becomes
\* 'ready' again, provided each request eventually resolves or rejects.
C15_ProcessingLeadsToReady == (uploadState = "processing") ~> (uploadState = "ready")

\* The encoding of the file has failed and the widget is back to 'ready'.
C15_Witness ==
    /\ lastOp.op = "encodeFailed"
    /\ uploadState = "ready"
    /\ requests = {}

\* An invocation of handleProcess has not returned.
Outstanding == requests # {}

\* C16: a request is in flight if and only if uploadState = 'processing'.
C16_InFlightIffProcessing == Outstanding <=> uploadState = "processing"

\* C17: the widget stores at most one of result markup and error message.
C17_ResultOrError == ~(svgOutput # None /\ error # None)

\* C18: a stored result belongs to the image held now.
C18_ResultOfHeldImage == svgOutput # None => resultOf = image

\* ------------------------------------------ claims: Relay Handler, continued

\* The replies that are a well-formed payload wrapped in fence markers, with
\* whitespace before the opening marker, after the closing marker or both.
OuterFenced ==
    {w[1] \o Fenced(open, ws1, p, ws2) \o w[2] :
        w \in (OuterWs \X OuterWs) \ {<<(<<>>), (<<>>)>>}, open \in OpenFences,
        ws1 \in InnerWs, p \in SvgPayloads, ws2 \in InnerWs}

\* C19: when the reply is a well-formed payload wrapped in fence markers with
\* whitespace outside the markers, the handler answers 200 with an svg field
\* that begins with '<svg' and holds no fence marker.
C19_OuterWhitespaceStripped ==
    \A t \in OuterFenced :
        (hpc = "responded" /\ RepliedText(t))
            => /\ Len(responses) = 1
               /\ responses[1].status = 200
               /\ responses[1].svg # None
               /\ StartsWith(responses[1].svg.val, SvgTag)
               /\ ~Includes(responses[1].svg.val, Fence)

\* ---------------------------------------- claims: Upload Widget, acceptance

\* The step is a drop or a pick of a file whose type begins with image/.
OfferedImage ==
    /\ lastOp'.op \in {"onDrop", "onFileChange"}
    /\ lastOp'.file # NoFile
    /\ StartsWith(lastOp'.file.val.type, ImageSlash)

\* C20: accepting a file whose content type begins with 'image/' while the
\* widget is idle, dragging or ready leaves uploadState = 'ready', the held
\* image the new file with a display reference created by this step, and the
\* stored result and the stored error cleared.
C20_AcceptImage ==
    [][(uploadState \in {"idle", "dragging", "ready"} /\ OfferedImage)
        => /\ uploadState' = "ready"
           /\ image' # None
           /\ image'.file = lastOp'.file.val
           /\ image'.url \notin DOMAIN revokes
           /\ image'.url \in live'
           /\ svgOutput' = None
           /\ error' = None]_vars

\* The picker has given a second image to a widget that held one: the new
\* file is held under the second URL, nothing else is stored.
C20_Witness ==
    /\ lastOp = Op("onFileChange", Some(GifFile))
    /\ uploadState = "ready"
    /\ image = [file |-> GifFile, url |-> 2]
    /\ live = {2}
    /\ svgOutput = None
    /\ error = None
    /\ requests = {}

\* ------------------------------------------- claims: Relay Handler, shaping

\* C21: a reply that after stripping begins with '<svg' is answered 200 with
\* the stripped text in svg, with or without animation markers; animated is
\* true exactly when the text holds '@keyframes' or 'animation'.
C21_MarkupAlwaysAnswered ==
    \A t \in ReplyTexts :
        (hpc = "responded" /\ RepliedText(t) /\ StartsWith(stripFences(t), SvgTag))
            => /\ Len(responses) = 1
               /\ responses[1].status = 200
               /\ responses[1].error = None
               /\ responses[1].svg = Some(stripFences(t))
               /\ responses[1].animated # None
               /\ responses[1].animated.val
                    <=> (\/ Includes(responses[1].svg.val, KeyframesMarker)
                         \/ Includes(responses[1].svg.val, AnimationMarker))

\* Markup without any animation marker, fenced, has been answered 200 with
\* animated false.
C21_Witness ==
    /\ hpc = "responded"
    /\ RepliedText(Fenced(Fence \o <<"s", "v", "g">>, <<"\n">>, SvgStatic, <<"\n">>))
    /\ responses = <<Response(200, None, None, Some(SvgStatic), Some(FALSE))>>

\* ------------------------------------------ claims: Upload Widget, coupling

\* C22: in every reachable state 'processing' and 'ready' imply that an
\* image is held and 'idle' implies that none is; once an image is held the
\* slot is never emptied and the state never returns to 'idle'.
C22_StateImageCoupling ==
    /\ [](/\ uploadState \in {"processing", "ready"} => image # None
          /\ uploadState = "idle" => image = None)
    /\ [][image # None => (image' # None /\ uploadState' # "idle")]_vars

\* Processing has started on the second image the widget was given.
C22_Witness ==
    /\ lastOp.op = "handleProcess"
    /\ uploadState = "processing"
    /\ image # None
    /\ image.url = 2
    /\ requests # {}

====
